---- MODULE Spec2Model ----
(***************************************************************************)
(* A model of the technical-indicator engine of the trading dashboard      *)
(* (frontend/src/utils/technicalIndicators.ts).                            *)
(*                                                                         *)
(* JavaScript numbers are modelled as tagged values: a finite number is a  *)
(* fixed-point integer (value * Scale, divisions rounded to nearest), and  *)
(* NaN, +Infinity, -Infinity and undefined are values of their own with    *)
(* the IEEE-754 / ECMAScript rules for them.  Binary rounding of sums is   *)
(* not part of the model: inputs are whole numbers, whose sums are exact   *)
(* in a double as well.                                                    *)
(* Arrays are sequences; the code's 0-based index i is position i + 1.     *)
(*                                                                         *)
(* The second part is the PriceChart component that fetches the bars of    *)
(* the selected asset and hands them to the engine                         *)
(* (frontend/src/components/PriceChart.tsx).                               *)
(***************************************************************************)
EXTENDS Integers, Sequences, FiniteSets, TLC

VARIABLES data, call, out,
          selectedAsset, timeInterval, mounted, requests, chartData,
          isLoading

\* the state of the chart component
chartVars ==
  <<selectedAsset, timeInterval, mounted, requests, chartData, isLoading>>

vars == <<data, call, out, chartVars>>

\* ------------------------------------------------------------------ bounds

\* fixed-point resolution of a finite number
Scale == 1000

\* longest shaped input series
MaxLen == 37

\* every series over SmallPrices up to this length is an input
SmallLen == 4

\* largest period / multiplier handed to a directly called indicator
MaxPeriod == 3

MaxMult == 2

\* periods below 1 are tried down to -MaxBelow
MaxBelow == 2

\* longest series handed to the facade, past the lookback of the long
\* moving average
LongLen == 202

\* most fetches the chart starts in one behaviour
MaxRequests == 2

\* ------------------------------------------------------------ JS numbers

Undef == [k |-> "undef", v |-> 0]

NaN == [k |-> "nan", v |-> 0]

PInf == [k |-> "inf", v |-> 1]

NInf == [k |-> "inf", v |-> -1]

Num(x) == [k |-> "num", v |-> x]

\* a whole number n as a JS number
Int2Num(n) == Num(n * Scale)

IsNum(a) == a.k = "num"

IsInf(a) == a.k = "inf"

IsNaN(a) == a.k = "nan"

IsUndef(a) == a.k = "undef"

\* neither a finite number nor an infinity: NaN, or undefined coerced to NaN
NotANumber(a) == a.k \in {"nan", "undef"}

Sign(x) == IF x > 0 THEN 1 ELSE IF x < 0 THEN -1 ELSE 0

Abs(x) == IF x < 0 THEN -x ELSE x

\* a / b rounded to the nearest integer, b > 0
RDiv(a, b) == (2 * a + b) \div (2 * b)

\* a * b / c rounded to the nearest integer, a, b >= 0 and c > 0, computed
\* without forming the whole product
MulDiv(a, b, c) ==
  (a \div c) * b + ((a % c) * (b \div c)) + RDiv((a % c) * (b % c), c)

RECURSIVE ISqrtFrom(_, _)
ISqrtFrom(n, r) ==
  LET r2 == (r + n \div r) \div 2
  IN IF r2 >= r THEN r ELSE ISqrtFrom(n, r2)

\* floor of the square root of n >= 0
ISqrt(n) == IF n < 2 THEN n ELSE ISqrtFrom(n, n)

JsNeg(a) ==
  CASE IsNum(a) -> Num(-a.v)
    [] IsInf(a) -> [k |-> "inf", v |-> -a.v]
    [] OTHER -> NaN

JsAdd(a, b) ==
  CASE NotANumber(a) \/ NotANumber(b) -> NaN
    [] IsInf(a) /\ IsInf(b) -> IF a.v = b.v THEN a ELSE NaN
    [] IsInf(a) -> a
    [] IsInf(b) -> b
    [] OTHER -> Num(a.v + b.v)

JsSub(a, b) == JsAdd(a, JsNeg(b))

JsMul(a, b) ==
  CASE NotANumber(a) \/ NotANumber(b) -> NaN
    [] IsInf(a) \/ IsInf(b) ->
         IF Sign(a.v) * Sign(b.v) = 0 THEN NaN
         ELSE [k |-> "inf", v |-> Sign(a.v) * Sign(b.v)]
    [] OTHER -> Num(Sign(a.v) * Sign(b.v) * MulDiv(Abs(a.v), Abs(b.v), Scale))

JsDiv(a, b) ==
  CASE NotANumber(a) \/ NotANumber(b) -> NaN
    [] IsInf(a) /\ IsInf(b) -> NaN
    [] IsInf(a) -> [k |-> "inf", v |-> IF b.v < 0 THEN -a.v ELSE a.v]
    [] IsInf(b) -> Num(0)
    [] b.v = 0 -> IF a.v = 0 THEN NaN ELSE [k |-> "inf", v |-> Sign(a.v)]
    [] OTHER -> Num(Sign(a.v) * Sign(b.v) * MulDiv(Abs(a.v), Scale, Abs(b.v)))

JsSqrt(a) ==
  CASE NotANumber(a) -> NaN
    [] IsInf(a) -> IF a.v > 0 THEN a ELSE NaN
    [] a.v < 0 -> NaN
    [] OTHER -> Num(ISqrt(a.v * Scale))

\* a > b; false as soon as one side is NaN or undefined
JsGt(a, b) ==
  CASE NotANumber(a) \/ NotANumber(b) -> FALSE
    [] IsInf(a) /\ IsInf(b) -> a.v > b.v
    [] IsInf(a) -> a.v > 0
    [] IsInf(b) -> b.v < 0
    [] OTHER -> a.v > b.v

JsLt(a, b) == JsGt(b, a)

JsGe(a, b) == JsGt(a, b) \/ (~NotANumber(a) /\ a = b)

\* x || 0
OrZero(a) == IF NotANumber(a) \/ a = Num(0) THEN Num(0) ELSE a

\* ---------------------------------------------------------------- arrays

\* arr[i] with the 0-based index of the code; undefined out of range
At(arr, i) == IF i >= 0 /\ i < Len(arr) THEN arr[i + 1] ELSE Undef

Max0(n) == IF n > 0 THEN n ELSE 0

\* arr.slice(from, to), 0 <= from <= to
Slice(arr, from, to) ==
  LET hi == IF to > Len(arr) THEN Len(arr) ELSE to
  IN [j \in 1..Max0(hi - from) |-> arr[from + j]]

\* the sum of arr[lo..hi], by halves: additions of whole multiples of
\* 1 / Scale are exact, so the grouping does not change the result
RECURSIVE SumRange(_, _, _)
SumRange(arr, lo, hi) ==
  IF lo > hi THEN Num(0)
  ELSE IF lo = hi THEN JsAdd(Num(0), arr[lo])
  ELSE LET mid == (lo + hi) \div 2
       IN JsAdd(SumRange(arr, lo, mid), SumRange(arr, mid + 1, hi))

\* arr.reduce((a, b) => a + b, 0)
Sum(arr) == SumRange(arr, 1, Len(arr))

Prices(d) == [i \in 1..Len(d) |-> d[i].price]

\* arr.map(x => -x)
MapNeg(arr) == [j \in 1..Len(arr) |-> JsNeg(arr[j])]

\* ------------------------------------------- library primitives (SMA, EMA)

\* SMA.calculate({period, values}): the mean of each trailing window of
\* `period` values; no value before a full window, so N - period + 1 values
\* (none when N < period)
SMA(values, period) ==
  [j \in 1..Max0(Len(values) - period + 1) |->
     JsDiv(Sum(Slice(values, j - 1, j - 1 + period)), Int2Num(period))]

\* the recurrence over values[lo..hi] from the value `prev` before lo, left
\* half first
RECURSIVE EMARange(_, _, _, _, _)
EMARange(values, lo, hi, k, prev) ==
  IF lo > hi THEN << >>
  ELSE IF lo = hi THEN << JsAdd(JsMul(JsSub(values[lo], prev), k), prev) >>
  ELSE LET mid == (lo + hi) \div 2
           left == EMARange(values, lo, mid, k, prev)
       IN left \o EMARange(values, mid + 1, hi, k, left[Len(left)])

EMAFrom(values, n, k, acc) ==
  acc \o EMARange(values, n, Len(values), k, acc[Len(acc)])

\* EMA.calculate({period, values}): seeded with the SMA of the first window,
\* then ema = (value - prev) * k + prev with k = 2 / (period + 1)
EMA(values, period) ==
  IF Len(values) < period THEN << >>
  ELSE EMAFrom(values, period + 1,
               JsDiv(Int2Num(2), Int2Num(period + 1)),
               << SMA(Slice(values, 0, period), period)[1] >>)

\* ------------------------------------------------------------------- RSI

\* RsiSignal with the upper boundary itself counted as overbought
RsiSignalInclusive(rsiValue) ==
  IF JsGe(rsiValue, Int2Num(70)) THEN "overbought"
  ELSE IF JsLt(rsiValue, Int2Num(30)) THEN "oversold"
  ELSE "neutral"

RsiSignal(rsiValue) ==
  IF JsGt(rsiValue, Int2Num(70)) THEN "overbought"
  ELSE IF JsLt(rsiValue, Int2Num(30)) THEN "oversold"
  ELSE "neutral"

\* the close-to-close changes prices[j + 1] - prices[j], j = i - period .. i - 1
RsiChanges(prices, period, i) ==
  [j \in 1..period |->
     JsSub(At(prices, i - period + j), At(prices, i - period + j - 1))]

RsiAvgGain(prices, period, i) ==
  LET gains == SelectSeq(RsiChanges(prices, period, i),
                         LAMBDA c : JsGt(c, Num(0)))
  IN JsDiv(Sum(gains), Int2Num(period))

RsiAvgLoss(prices, period, i) ==
  LET losses == MapNeg(SelectSeq(RsiChanges(prices, period, i),
                                 LAMBDA c : ~JsGt(c, Num(0))))
  IN JsDiv(Sum(losses), Int2Num(period))

\* one pass of the loop body: the RSI of the window ending at index i
RsiValue(prices, period, i) ==
  LET rs == JsDiv(RsiAvgGain(prices, period, i), RsiAvgLoss(prices, period, i))
  IN JsSub(Int2Num(100), JsDiv(Int2Num(100), JsAdd(Int2Num(1), rs)))

calculateRSI(d, period) ==
  LET prices == Prices(d)
      rsi == [n \in 1..Max0(Len(prices) - period) |->
                RsiValue(prices, period, period + n - 1)]
  IN [values |-> rsi,
      signals |-> [n \in 1..Len(rsi) |-> RsiSignal(rsi[n])]]

\* ------------------------------------------------------- Bollinger Bands

\* BollingerAt with the lower band on the wrong side of the mean
BollingerAtLowerAdded(prices, period, multiplier, i) ==
  LET slice == Slice(prices, i - period, i)
      sma == At(SMA(slice, period), 0)
      sq == [j \in 1..Len(slice) |->
               JsMul(JsSub(slice[j], sma), JsSub(slice[j], sma))]
      stdDev == JsSqrt(JsDiv(Sum(sq), Int2Num(period)))
  IN [upper |-> JsAdd(sma, JsMul(stdDev, multiplier)),
      middle |-> sma,
      lower |-> JsAdd(sma, JsMul(stdDev, multiplier)),
      stdDev |-> stdDev]

\* BollingerAt with a window that ends at bar i instead of bar i - 1
BollingerAtWindowShifted(prices, period, multiplier, i) ==
  LET slice == Slice(prices, i - period + 1, i + 1)
      sma == At(SMA(slice, period), 0)
      sq == [j \in 1..Len(slice) |->
               JsMul(JsSub(slice[j], sma), JsSub(slice[j], sma))]
      stdDev == JsSqrt(JsDiv(Sum(sq), Int2Num(period)))
  IN [upper |-> JsAdd(sma, JsMul(stdDev, multiplier)),
      middle |-> sma,
      lower |-> JsSub(sma, JsMul(stdDev, multiplier)),
      stdDev |-> stdDev]

\* the three bands pushed by the loop body at index i
BollingerAt(prices, period, multiplier, i) ==
  LET slice == Slice(prices, i - period, i)
      sma == At(SMA(slice, period), 0)
      sq == [j \in 1..Len(slice) |->
               JsMul(JsSub(slice[j], sma), JsSub(slice[j], sma))]
      stdDev == JsSqrt(JsDiv(Sum(sq), Int2Num(period)))
  IN [upper |-> JsAdd(sma, JsMul(stdDev, multiplier)),
      middle |-> sma,
      lower |-> JsSub(sma, JsMul(stdDev, multiplier)),
      stdDev |-> stdDev]

\* BollingerSignal with the two sides exchanged
BollingerSignalSwapped(price, upper, lower) ==
  IF JsGt(price, upper) THEN "buy"
  ELSE IF JsLt(price, lower) THEN "sell"
  ELSE "neutral"

BollingerSignal(price, upper, lower) ==
  IF JsGt(price, upper) THEN "sell"
  ELSE IF JsLt(price, lower) THEN "buy"
  ELSE "neutral"

calculateBollingerBands(d, period, multiplier) ==
  LET prices == Prices(d)
      b == [n \in 1..Max0(Len(prices) - period) |->
              BollingerAt(prices, period, multiplier, period + n - 1)]
  IN [upperBand |-> [n \in 1..Len(b) |-> b[n].upper],
      middleBand |-> [n \in 1..Len(b) |-> b[n].middle],
      lowerBand |-> [n \in 1..Len(b) |-> b[n].lower],
      signals |-> [n \in 1..Len(b) |->
                     BollingerSignal(At(prices, period + n - 1),
                                     b[n].upper, b[n].lower)]]

\* ------------------------------------------------------------------ MACD

\* the loop body at index i of the histogram
MacdSignal(histogram, i) ==
  IF JsLt(At(histogram, i), Num(0)) /\ JsGt(At(histogram, i + 1), Num(0))
    THEN "buy"
  ELSE IF JsGt(At(histogram, i), Num(0)) /\ JsLt(At(histogram, i + 1), Num(0))
    THEN "sell"
  ELSE "neutral"

calculateMACD(d, fastPeriod, slowPeriod, signalPeriod) ==
  LET prices == Prices(d)
      fastEMA == EMA(prices, fastPeriod)
      slowEMA == EMA(prices, slowPeriod)
      macdLine == [n \in 1..Len(fastEMA) |->
                     JsSub(fastEMA[n], At(slowEMA, n - 1))]
      signalLine == EMA(macdLine, signalPeriod)
      histogram == [n \in 1..Len(macdLine) |->
                      JsSub(macdLine[n], At(signalLine, n - 1))]
  IN [macd |-> macdLine,
      signal |-> signalLine,
      histogram |-> histogram,
      signals |-> [n \in 1..Max0(Len(histogram) - 1) |->
                     MacdSignal(histogram, n - 1)]]

\* -------------------------------------------------------- Moving averages

\* the loop body at index i of the short moving average
MaSignal(shortMA, longMA, i) ==
  IF JsLt(At(shortMA, i), At(longMA, i))
     /\ JsGt(At(shortMA, i + 1), At(longMA, i + 1))
    THEN "buy"
  ELSE IF JsGt(At(shortMA, i), At(longMA, i))
          /\ JsLt(At(shortMA, i + 1), At(longMA, i + 1))
    THEN "sell"
  ELSE "neutral"

calculateMovingAverages(d, shortPeriod, longPeriod) ==
  LET prices == Prices(d)
      shortMA == SMA(prices, shortPeriod)
      longMA == SMA(prices, longPeriod)
  IN [shortMA |-> shortMA,
      longMA |-> longMA,
      signals |-> [n \in 1..Max0(Len(shortMA) - 1) |->
                     MaSignal(shortMA, longMA, n - 1)]]

\* ---------------------------------------------------------------- Volume

\* data.map(d => d.volume || 0)
Volumes(d) == [i \in 1..Len(d) |-> OrZero(d[i].volume)]

\* data.map(d => d.high || 0)
Highs(d) == [i \in 1..Len(d) |-> OrZero(d[i].high)]

\* data.map(d => d.low || 0)
Lows(d) == [i \in 1..Len(d) |-> OrZero(d[i].low)]

\* the spike factor 1.5
SpikeFactor == Num((3 * Scale) \div 2)

\* the loop body at index i of the volume
VolumeSignal(d, volume, volumeMA, i) ==
  LET spike == JsGt(At(volume, i), JsMul(At(volumeMA, i), SpikeFactor))
  IN IF spike /\ JsGt(d[i + 2].price, d[i + 1].price) THEN "buy"
     ELSE IF spike /\ JsLt(d[i + 2].price, d[i + 1].price) THEN "sell"
     ELSE "neutral"

calculateVolume(d, period) ==
  LET volume == Volumes(d)
      volumeMA == SMA(volume, period)
  IN [volume |-> volume,
      volumeMA |-> volumeMA,
      signals |-> [n \in 1..Max0(Len(volume) - 1) |->
                     VolumeSignal(d, volume, volumeMA, n - 1)]]

\* ------------------------------- library indicators (technicalindicators)

JsAbs(a) == IF JsLt(a, Num(0)) THEN JsNeg(a) ELSE a

\* Math.max(a, b)
JsMax(a, b) ==
  IF NotANumber(a) \/ NotANumber(b) THEN NaN ELSE IF JsGt(b, a) THEN b ELSE a

\* Math.min(a, b)
JsMin(a, b) ==
  IF NotANumber(a) \/ NotANumber(b) THEN NaN ELSE IF JsLt(b, a) THEN b ELSE a

RECURSIVE MaxFrom(_, _, _)
MaxFrom(arr, n, acc) ==
  IF n > Len(arr) THEN acc ELSE MaxFrom(arr, n + 1, JsMax(acc, arr[n]))

RECURSIVE MinFrom(_, _, _)
MinFrom(arr, n, acc) ==
  IF n > Len(arr) THEN acc ELSE MinFrom(arr, n + 1, JsMin(acc, arr[n]))

\* (high + low + close) / 3
TypicalPrices(highs, lows, closes) ==
  [i \in 1..Len(closes) |->
     JsDiv(JsAdd(JsAdd(highs[i], lows[i]), closes[i]), Int2Num(3))]

\* the true range of every bar that has a previous close
TrueRanges(highs, lows, closes) ==
  [n \in 1..Max0(Len(closes) - 1) |->
     JsMax(JsSub(highs[n + 1], lows[n + 1]),
           JsMax(JsAbs(JsSub(highs[n + 1], closes[n])),
                 JsAbs(JsSub(lows[n + 1], closes[n]))))]

\* Wilder's moving average: seeded with the SMA of the first window, then
\* (value - prev) / period + prev
WEMA(values, period) ==
  IF Len(values) < period THEN << >>
  ELSE EMAFrom(values, period + 1,
               JsDiv(Int2Num(1), Int2Num(period)),
               << SMA(Slice(values, 0, period), period)[1] >>)

\* the smoothed sums over values[lo..hi] from the sum `prev` before lo
RECURSIVE WilderRange(_, _, _, _, _)
WilderRange(values, lo, hi, period, prev) ==
  IF lo > hi THEN << >>
  ELSE IF lo = hi
    THEN << JsAdd(JsSub(prev, JsDiv(prev, Int2Num(period))), values[lo]) >>
  ELSE LET mid == (lo + hi) \div 2
           left == WilderRange(values, lo, mid, period, prev)
       IN left \o WilderRange(values, mid + 1, hi, period, left[Len(left)])

WilderFrom(values, n, period, acc) ==
  acc \o WilderRange(values, n, Len(values), period, acc[Len(acc)])

\* Wilder's smoothed sum: the sum of the first window, then
\* prev - prev / period + value
WilderSmoothing(values, period) ==
  IF Len(values) < period THEN << >>
  ELSE WilderFrom(values, period + 1, period,
                  << Sum(Slice(values, 0, period)) >>)

\* ATR.calculate: Wilder's average of the true range
LibATR(highs, lows, closes, period) ==
  WEMA(TrueRanges(highs, lows, closes), period)

PlusDM(highs, lows) ==
  [n \in 1..Max0(Len(highs) - 1) |->
     LET up == JsSub(highs[n + 1], highs[n])
         down == JsSub(lows[n], lows[n + 1])
     IN IF JsGt(up, down) /\ JsGt(up, Num(0)) THEN up ELSE Num(0)]

MinusDM(highs, lows) ==
  [n \in 1..Max0(Len(highs) - 1) |->
     LET up == JsSub(highs[n + 1], highs[n])
         down == JsSub(lows[n], lows[n + 1])
     IN IF JsGt(down, up) /\ JsGt(down, Num(0)) THEN down ELSE Num(0)]

\* ADX.calculate(...).map(r => r.adx): Wilder's average of the directional
\* index, itself from the smoothed directional movements and true range
LibADX(highs, lows, closes, period) ==
  LET str == WilderSmoothing(TrueRanges(highs, lows, closes), period)
      spdm == WilderSmoothing(PlusDM(highs, lows), period)
      smdm == WilderSmoothing(MinusDM(highs, lows), period)
      dx == [n \in 1..Len(str) |->
               LET pdi == JsDiv(JsMul(spdm[n], Int2Num(100)), str[n])
                   mdi == JsDiv(JsMul(smdm[n], Int2Num(100)), str[n])
               IN JsMul(JsDiv(JsAbs(JsSub(pdi, mdi)), JsAdd(pdi, mdi)),
                        Int2Num(100))]
  IN WEMA(dx, period)

\* the running volume over bars lo..hi from the value `prev` before lo
RECURSIVE OBVRange(_, _, _, _, _)
OBVRange(closes, volumes, lo, hi, prev) ==
  IF lo > hi THEN << >>
  ELSE IF lo = hi
    THEN << IF JsLt(closes[lo - 1], closes[lo])
              THEN JsAdd(prev, volumes[lo])
            ELSE IF JsLt(closes[lo], closes[lo - 1])
              THEN JsSub(prev, volumes[lo])
            ELSE prev >>
  ELSE LET mid == (lo + hi) \div 2
           left == OBVRange(closes, volumes, lo, mid, prev)
       IN left \o OBVRange(closes, volumes, mid + 1, hi, left[Len(left)])

OBVFrom(closes, volumes, n, acc) ==
  acc \o OBVRange(closes, volumes, n, Len(closes),
                  IF acc = << >> THEN Num(0) ELSE acc[Len(acc)])

\* OBV.calculate: the running sum of volume signed by the close's direction,
\* one value for every bar that has a previous bar
LibOBV(closes, volumes) == OBVFrom(closes, volumes, 2, << >>)

\* the cumulative totals over bars lo..hi from the totals before lo
RECURSIVE VWAPRange(_, _, _, _, _, _)
VWAPRange(tp, volumes, lo, hi, cumTotal, cumVolume) ==
  IF lo > hi THEN << >>
  ELSE IF lo = hi
    THEN << [total |-> JsAdd(cumTotal, JsMul(tp[lo], volumes[lo])),
             vol |-> JsAdd(cumVolume, volumes[lo])] >>
  ELSE LET mid == (lo + hi) \div 2
           left == VWAPRange(tp, volumes, lo, mid, cumTotal, cumVolume)
       IN left \o VWAPRange(tp, volumes, mid + 1, hi,
                            left[Len(left)].total, left[Len(left)].vol)

VWAPFrom(tp, volumes, n, cumTotal, cumVolume, acc) ==
  LET cum == VWAPRange(tp, volumes, n, Len(tp), cumTotal, cumVolume)
  IN acc \o [j \in 1..Len(cum) |-> JsDiv(cum[j].total, cum[j].vol)]

\* VWAP.calculate: cumulative typical price * volume over cumulative volume
LibVWAP(highs, lows, closes, volumes) ==
  VWAPFrom(TypicalPrices(highs, lows, closes), volumes, 1, Num(0), Num(0),
           << >>)

\* 0.015
CciConstant == Num((15 * Scale) \div 1000)

\* CCI.calculate: (tp - SMA(tp)) / (0.015 * mean deviation) per full window
LibCCI(highs, lows, closes, period) ==
  LET tp == TypicalPrices(highs, lows, closes)
  IN [n \in 1..Max0(Len(tp) - period + 1) |->
        LET win == Slice(tp, n - 1, n - 1 + period)
            avg == JsDiv(Sum(win), Int2Num(period))
            dev == [j \in 1..Len(win) |-> JsAbs(JsSub(win[j], avg))]
            meanDev == JsDiv(Sum(dev), Int2Num(period))
        IN JsDiv(JsSub(tp[n - 1 + period], avg), JsMul(CciConstant, meanDev))]

\* Stochastic.calculate(...).map(v => v.k):
\* 100 * (close - lowest low) / (highest high - lowest low) per full window
LibStochK(highs, lows, closes, period) ==
  [n \in 1..Max0(Len(closes) - period + 1) |->
     LET hi == MaxFrom(Slice(highs, n - 1, n - 1 + period), 2, highs[n])
         lo == MinFrom(Slice(lows, n - 1, n - 1 + period), 2, lows[n])
     IN JsMul(JsDiv(JsSub(closes[n - 1 + period], lo), JsSub(hi, lo)),
              Int2Num(100))]

\* ROC.calculate: the percent change against the value `period` bars earlier
LibROC(values, period) ==
  [n \in 1..Max0(Len(values) - period) |->
     JsMul(JsDiv(JsSub(values[n + period], values[n]), values[n]),
           Int2Num(100))]

\* MFI.calculate: 100 - 100 / (1 + positive flow / negative flow) over the
\* last `period` changes of the typical price
LibMFI(highs, lows, closes, volumes, period) ==
  LET tp == TypicalPrices(highs, lows, closes)
      flow(j) == JsMul(tp[j], volumes[j])
  IN [n \in 1..Max0(Len(tp) - period) |->
        LET pos == [j \in 1..period |->
                      IF JsGt(tp[n + j], tp[n + j - 1])
                        THEN flow(n + j) ELSE Num(0)]
            neg == [j \in 1..period |->
                      IF JsLt(tp[n + j], tp[n + j - 1])
                        THEN flow(n + j) ELSE Num(0)]
        IN JsSub(Int2Num(100),
                 JsDiv(Int2Num(100),
                       JsAdd(Int2Num(1), JsDiv(Sum(pos), Sum(neg)))))]

\* --------------------------- the indicators built on the library's result

\* value => (value > 25 ? 'strong' : 'weak')
AdxSignal(value) == IF JsGt(value, Int2Num(25)) THEN "strong" ELSE "weak"

calculateADX(d, period) ==
  LET adxValues == LibADX(Highs(d), Lows(d), Prices(d), period)
  IN [values |-> adxValues,
      signals |-> [n \in 1..Len(adxValues) |-> AdxSignal(adxValues[n])]]

calculateOBV(d) ==
  LET obvValues == LibOBV(Prices(d), Volumes(d))
  IN [values |-> obvValues,
      signals |-> [n \in 1..Len(obvValues) |->
                     IF n = 1 THEN "neutral"
                     ELSE IF JsGt(obvValues[n], obvValues[n - 1]) THEN "buy"
                     ELSE "sell"]]

\* () => 'neutral'
VwapSignal(value) == "neutral"

calculateVWAP(d) ==
  LET vwapValues == LibVWAP(Highs(d), Lows(d), Prices(d), Volumes(d))
  IN [values |-> vwapValues,
      signals |-> [n \in 1..Len(vwapValues) |-> VwapSignal(vwapValues[n])]]

\* () => 'neutral'
AtrSignal(value) == "neutral"

calculateATR(d, period) ==
  LET atrValues == LibATR(Highs(d), Lows(d), Prices(d), period)
  IN [values |-> atrValues,
      signals |-> [n \in 1..Len(atrValues) |-> AtrSignal(atrValues[n])]]

CciSignal(value) ==
  IF JsGt(value, Int2Num(100)) THEN "overbought"
  ELSE IF JsLt(value, Int2Num(-100)) THEN "oversold"
  ELSE "neutral"

calculateCCI(d, period) ==
  LET cciValues == LibCCI(Highs(d), Lows(d), Prices(d), period)
  IN [values |-> cciValues,
      signals |-> [n \in 1..Len(cciValues) |-> CciSignal(cciValues[n])]]

StochSignal(value) ==
  IF JsGt(value, Int2Num(80)) THEN "overbought"
  ELSE IF JsLt(value, Int2Num(20)) THEN "oversold"
  ELSE "neutral"

calculateStoch(d, period, signalPeriod) ==
  LET values == LibStochK(Highs(d), Lows(d), Prices(d), period)
  IN [values |-> values,
      signals |-> [n \in 1..Len(values) |-> StochSignal(values[n])]]

RocSignal(value) ==
  IF JsGt(value, Num(0)) THEN "buy"
  ELSE IF JsLt(value, Num(0)) THEN "sell"
  ELSE "neutral"

calculateROC(d, period) ==
  LET rocValues == LibROC(Prices(d), period)
  IN [values |-> rocValues,
      signals |-> [n \in 1..Len(rocValues) |-> RocSignal(rocValues[n])]]

MfiSignal(value) ==
  IF JsGt(value, Int2Num(80)) THEN "overbought"
  ELSE IF JsLt(value, Int2Num(20)) THEN "oversold"
  ELSE "neutral"

calculateMFI(d, period) ==
  LET mfiValues == LibMFI(Highs(d), Lows(d), Prices(d), Volumes(d), period)
  IN [values |-> mfiValues,
      signals |-> [n \in 1..Len(mfiValues) |-> MfiSignal(mfiValues[n])]]

\* ------------------------------------------------------------ the facade

\* the default parameters of the indicator functions
RsiPeriod == 14

MacdFastPeriod == 12

MacdSlowPeriod == 26

MacdSignalPeriod == 9

BollingerPeriod == 20

BollingerMultiplier == 2

ShortPeriod == 50

LongPeriod == 200

VolumePeriod == 20

AdxPeriod == 14

AtrPeriod == 14

CciPeriod == 20

StochPeriod == 14

StochSignalPeriod == 3

RocPeriod == 12

MfiPeriod == 14

\* the rsi offset one too small
RsiOffsetOneLess == RsiPeriod - 1

\* the index offsets written out in the merge step
RsiOffset == 14

\* the macd offset taken from the fast period instead of the slow one
MacdOffsetFast == MacdFastPeriod

MacdOffset == 26

\* the signal offset one too small
MacdSignalOffsetOneLess == MacdSignalPeriod - 1

MacdSignalOffset == 9

\* the band offset one too small
BandOffsetOneLess == BollingerPeriod - 1

BandOffset == 20

ShortMaOffset == 50

\* the long-average offset one too small
LongMaOffsetOneLess == LongPeriod - 1

LongMaOffset == 200

VolumeMaOffset == 20

AtrOffset == 14

\* PadThrows for a padding that is one entry too short
PadThrowsOneShort(values, length) == length - Len(values) - 1 < 0

\* new Array(length - values.length) throws a RangeError on a negative length
PadThrows(values, length) == length - Len(values) < 0

\* padValues with the padding after the values
padValuesAtEnd(values, length) ==
  values \o [n \in 1..(length - Len(values)) |-> Undef]

\* padValues: `length - values.length` undefined entries, then the values
padValues(values, length) ==
  [n \in 1..(length - Len(values)) |-> Undef] \o values

\* value[i - offset] from index `offset` on, undefined before
Shifted(values, offset, i) ==
  IF i >= offset THEN At(values, i - offset) ELSE Undef

\* Spread for an object built from the timestamp and the price alone
SpreadPriceOnly(bar) == [bar EXCEPT !.high = Undef, !.low = Undef]

\* { ...d }: a new object with the own fields of the input bar
Spread(bar) == bar

\* what a call that ended in an exception leaves behind
Threw == [status |-> "threw", data |-> << >>, signals |-> << >>]

calculateAllIndicators(d) ==
  LET rsiResult == calculateRSI(d, RsiPeriod)
      macdResult == calculateMACD(d, MacdFastPeriod, MacdSlowPeriod,
                                  MacdSignalPeriod)
      bollingerResult == calculateBollingerBands(d, BollingerPeriod,
                                                 Int2Num(BollingerMultiplier))
      maResult == calculateMovingAverages(d, ShortPeriod, LongPeriod)
      volumeResult == calculateVolume(d, VolumePeriod)
      adxResult == calculateADX(d, AdxPeriod)
      obvResult == calculateOBV(d)
      vwapResult == calculateVWAP(d)
      atrResult == calculateATR(d, AtrPeriod)
      cciResult == calculateCCI(d, CciPeriod)
      stochResult == calculateStoch(d, StochPeriod, StochSignalPeriod)
      rocResult == calculateROC(d, RocPeriod)
      mfiResult == calculateMFI(d, MfiPeriod)
      padded == {adxResult, vwapResult, mfiResult, obvResult, cciResult,
                 stochResult, rocResult}
      paddedAdxValues == padValues(adxResult.values, Len(d))
      paddedVwapValues == padValues(vwapResult.values, Len(d))
      paddedMfiValues == padValues(mfiResult.values, Len(d))
      paddedObvValues == padValues(obvResult.values, Len(d))
      paddedCciValues == padValues(cciResult.values, Len(d))
      paddedStochValues == padValues(stochResult.values, Len(d))
      paddedRocValues == padValues(rocResult.values, Len(d))
      newData ==
        [n \in 1..Len(d) |->
           LET i == n - 1
               own == Spread(d[n])
           IN [timestamp |-> own.timestamp,
               price |-> own.price,
               high |-> own.high,
               low |-> own.low,
               rsi |-> Shifted(rsiResult.values, RsiOffset, i),
               macd |-> Shifted(macdResult.macd, MacdOffset, i),
               macdSignal |-> Shifted(macdResult.signal,
                                      MacdOffset + MacdSignalOffset, i),
               macdHistogram |-> Shifted(macdResult.histogram,
                                         MacdOffset + MacdSignalOffset, i),
               upperBand |-> Shifted(bollingerResult.upperBand, BandOffset, i),
               middleBand |-> Shifted(bollingerResult.middleBand, BandOffset, i),
               lowerBand |-> Shifted(bollingerResult.lowerBand, BandOffset, i),
               shortMA |-> Shifted(maResult.shortMA, ShortMaOffset, i),
               longMA |-> Shifted(maResult.longMA, LongMaOffset, i),
               volume |-> At(volumeResult.volume, i),
               volumeMA |-> Shifted(volumeResult.volumeMA, VolumeMaOffset, i),
               adx |-> At(paddedAdxValues, i),
               obv |-> At(paddedObvValues, i),
               vwap |-> At(paddedVwapValues, i),
               atr |-> Shifted(atrResult.values, AtrOffset, i),
               cci |-> At(paddedCciValues, i),
               stoch |-> At(paddedStochValues, i),
               roc |-> At(paddedRocValues, i),
               mfi |-> At(paddedMfiValues, i)]]
      signals == [rsi |-> rsiResult.signals,
                  macd |-> macdResult.signals,
                  bollinger |-> bollingerResult.signals,
                  ma |-> maResult.signals,
                  volume |-> volumeResult.signals,
                  adx |-> adxResult.signals,
                  obv |-> obvResult.signals,
                  vwap |-> vwapResult.signals,
                  atr |-> atrResult.signals,
                  cci |-> cciResult.signals,
                  stoch |-> stochResult.signals,
                  roc |-> rocResult.signals,
                  mfi |-> mfiResult.signals]
  IN IF \E r \in padded : PadThrows(r.values, Len(d)) THEN Threw
     ELSE [status |-> "returned", data |-> newData, signals |-> signals]

\* ---------------------------------------------------------------- inputs

Shapes == {"flat", "up", "down", "zigzag", "vee", "hill", "step", "wave"}

\* the close of bar i (0-based) of a shaped series, a whole number >= 1
ShapePrice(shape, i) ==
  CASE shape = "flat" -> 5
    [] shape = "up" -> i + 1
    [] shape = "down" -> 2 * MaxLen - i
    [] shape = "zigzag" -> 5 + (i % 2)
    [] shape = "vee" -> IF i < 12 THEN 20 - i ELSE i - 3
    [] shape = "hill" -> IF i < 12 THEN 5 + i ELSE IF i < 27 THEN 28 - i ELSE 2
    [] shape = "step" -> IF i < 15 THEN 5 ELSE 8
    [] shape = "cross" -> IF i = 0 \/ i >= LongPeriod THEN 1
                          ELSE IF i < ShortPeriod THEN 10
                          ELSE IF i = ShortPeriod THEN 101
                          ELSE 11
    [] OTHER -> 5 + (IF i % 4 = 3 THEN 1 ELSE i % 4)

\* series of closes: every short series over SmallPrices, and every shape at
\* every length up to MaxLen
SmallPrices == {1, 2, 3}

SmallSeries ==
  UNION {[1..n -> SmallPrices] : n \in 0..SmallLen}

ShapedSeries ==
  {[n \in 1..len |-> ShapePrice(shape, n - 1)] :
     shape \in Shapes, len \in (SmallLen + 1)..MaxLen}

\* which optional fields the bars carry
Kinds == {"full", "none"}

\* a price bar as the market-data client delivers it: timestamp and price,
\* and volume, high and low when the feed has them
Bar(i, p, kind) ==
  [timestamp |-> i,
   price |-> Int2Num(p),
   volume |-> IF kind = "full"
                THEN Int2Num(IF i % 5 = 4 THEN 9 ELSE 2) ELSE Undef,
   high |-> IF kind = "full" THEN Int2Num(p + 1) ELSE Undef,
   low |-> IF kind = "full" THEN Int2Num(p - 1) ELSE Undef]

Bars(series, kind) == [n \in 1..Len(series) |-> Bar(n - 1, series[n], kind)]

Inputs ==
  {Bars(series, "full") : series \in SmallSeries}
    \cup {Bars(series, kind) : series \in ShapedSeries, kind \in Kinds}

\* series longer than the lookback of the short and of the long moving
\* average, by one and by two bars
LongShapes == {"flat", "up", "zigzag", "vee", "hill", "step", "wave", "cross"}

LongLens == {ShortPeriod + 1, ShortPeriod + 2, LongLen - 1, LongLen}

LongSeries ==
  {[n \in 1..len |-> ShapePrice(shape, n - 1)] :
     shape \in LongShapes, len \in LongLens}

LongInputs == {Bars(series, kind) : series \in LongSeries, kind \in Kinds}

\* --------------------------------------------------------- state machine

NoCall == [fn |-> "none", args |-> << >>]

\* the asset the store starts with, one more asset, and an asset without id
AssetIds == {"bitcoin", "ethereum"}

NoId == ""

Intervals == {"1d", "1y"}

\* the chart as useState and the store construct it: no data, not loading,
\* the effect of the first render not yet run
ChartConstructed ==
  /\ selectedAsset = "bitcoin"
  /\ timeInterval \in Intervals
  /\ mounted = FALSE
  /\ requests = << >>
  /\ chartData = << >>
  /\ isLoading = FALSE

\* a chart nobody touches
ChartIdle ==
  /\ ChartConstructed
  /\ timeInterval = "1d"

Init ==
  /\ data \in Inputs
  /\ call = NoCall
  /\ out = [status |-> "none"]
  /\ ChartIdle

Returned(value) == [status |-> "returned", value |-> value]

\* InputAfterCall for a function that stores `d.volume || 0` back into the bar
InputAfterCallVolumeStored(d) ==
  [n \in 1..Len(d) |-> [d[n] EXCEPT !.volume = OrZero(@)]]

\* the caller's array after a call: every function reads it through
\* data.map(...), which builds a new array, and the facade builds its bars
\* with { ...d, ... }; no statement assigns to `data` or to a field of a bar
InputAfterCall(d) == d

CallRSI(period) ==
  /\ call = NoCall
  /\ call' = [fn |-> "calculateRSI", args |-> <<period>>]
  /\ out' = Returned(calculateRSI(data, period))
  /\ data' = InputAfterCall(data)
  /\ UNCHANGED chartVars

CallMACD(fastPeriod, slowPeriod, signalPeriod) ==
  /\ call = NoCall
  /\ call' = [fn |-> "calculateMACD",
              args |-> <<fastPeriod, slowPeriod, signalPeriod>>]
  /\ out' = Returned(calculateMACD(data, fastPeriod, slowPeriod, signalPeriod))
  /\ data' = InputAfterCall(data)
  /\ UNCHANGED chartVars

CallBollingerBands(period, multiplier) ==
  /\ call = NoCall
  /\ call' = [fn |-> "calculateBollingerBands", args |-> <<period, multiplier>>]
  /\ out' = Returned(calculateBollingerBands(data, period, Int2Num(multiplier)))
  /\ data' = InputAfterCall(data)
  /\ UNCHANGED chartVars

CallAllIndicators ==
  /\ call = NoCall
  /\ call' = [fn |-> "calculateAllIndicators", args |-> << >>]
  /\ out' = calculateAllIndicators(data)
  /\ data' = InputAfterCall(data)
  /\ UNCHANGED chartVars

\* the caller has consumed the result; nothing of the call is kept
Consume ==
  /\ call # NoCall
  /\ call' = NoCall
  /\ out' = [status |-> "none"]
  /\ UNCHANGED <<data, chartVars>>

Next ==
  \/ \E period \in 1..MaxPeriod : CallRSI(period)
  \/ \E fast \in 1..(MaxPeriod - 1), slow \in 2..MaxPeriod,
        sig \in 1..(MaxPeriod - 1) :
       CallMACD(fast, slow, sig)
  \/ \E period \in 1..MaxPeriod, multiplier \in 0..MaxMult :
       CallBollingerBands(period, multiplier)
  \/ CallAllIndicators
  \/ Consume

Spec == Init /\ [][Next]_vars

\* calls of calculateRSI with a period below 1
NextConfig ==
  \/ \E period \in (0 - MaxBelow)..0 : CallRSI(period)
  \/ Consume

SpecConfig == Init /\ [][NextConfig]_vars

\* the signal rule of one indicator applied to one value
SignalOf(rule, value) ==
  CASE rule = "rsi" -> RsiSignal(value)
    [] rule = "cci" -> CciSignal(value)
    [] rule = "stoch" -> StochSignal(value)
    [] rule = "mfi" -> MfiSignal(value)
    [] rule = "roc" -> RocSignal(value)
    [] rule = "adx" -> AdxSignal(value)
    [] rule = "vwap" -> VwapSignal(value)
    [] rule = "atr" -> AtrSignal(value)

Rules == {"rsi", "cci", "stoch", "mfi", "roc", "adx", "vwap", "atr"}

\* the thresholds of the signal rules
Boundaries == {-100, 0, 20, 25, 30, 70, 80, 100}

\* the values a rule is applied to: every threshold, the whole numbers next
\* to it, and NaN
ThresholdValues ==
  {NaN} \cup {Int2Num(b + delta) : b \in Boundaries, delta \in -1..1}

ClassifyValue(rule, value) ==
  /\ call = NoCall
  /\ call' = [fn |-> "signal", args |-> <<rule, value>>]
  /\ out' = Returned(SignalOf(rule, value))
  /\ data' = InputAfterCall(data)
  /\ UNCHANGED chartVars

\* the signal rules on their own, and inside calculateRSI and the facade
ThresholdInputs ==
  {Bars(series, kind) :
     series \in {s \in ShapedSeries : Len(s) = MaxLen}, kind \in Kinds}

InitThreshold ==
  /\ data \in ThresholdInputs
  /\ call = NoCall
  /\ out = [status |-> "none"]
  /\ ChartIdle

NextThreshold ==
  \/ \E rule \in Rules, value \in ThresholdValues : ClassifyValue(rule, value)
  \/ \E period \in 1..MaxPeriod : CallRSI(period)
  \/ CallAllIndicators
  \/ Consume

SpecThreshold == InitThreshold /\ [][NextThreshold]_vars

\* the facade on the long series
InitLong ==
  /\ data \in LongInputs
  /\ call = NoCall
  /\ out = [status |-> "none"]
  /\ ChartIdle

NextLong ==
  \/ CallAllIndicators
  \/ Consume

SpecLong == InitLong /\ [][NextLong]_vars

\* ------------------------------------------------------------ the chart

\* what the market_chart endpoint answers: the asset decides the prices, the
\* interval how many points there are, and the volume list may be one short
MarketChart(assetId, interval) ==
  LET base == IF assetId = "bitcoin" THEN 7 ELSE 3
      points == IF interval = "1y" THEN 3 ELSE 2
  IN [prices |-> [n \in 1..points |-> <<n - 1, Int2Num(base + n)>>],
      total_volumes |->
        [n \in 1..(IF assetId = "bitcoin" THEN points ELSE points - 1) |->
           <<n - 1, Int2Num(base * n)>>]]

getHistoricalData(assetId, interval) ==
  LET response == MarketChart(assetId, interval)
  IN [n \in 1..Len(response.prices) |->
        [timestamp |-> response.prices[n][1],
         price |-> response.prices[n][2],
         volume |-> IF n <= Len(response.total_volumes)
                    THEN response.total_volumes[n][2] ELSE Num(0),
         high |-> response.prices[n][2],
         low |-> response.prices[n][2]]]

Pending == {k \in 1..Len(requests) : requests[k].status = "pending"}

\* fetchChartData up to its await, for the selection of this render
StartFetch(assetId, interval) ==
  IF assetId = NoId
  THEN UNCHANGED <<requests, isLoading>>
  ELSE /\ Len(requests) < MaxRequests
       /\ isLoading' = TRUE
       /\ requests' = Append(requests, [id |-> assetId,
                                        interval |-> interval,
                                        status |-> "pending"])

\* the effect of the first render
Mount ==
  /\ ~mounted
  /\ mounted' = TRUE
  /\ StartFetch(selectedAsset, timeInterval)
  /\ UNCHANGED <<selectedAsset, timeInterval, chartData, data, call, out>>

\* dispatch(setSelectedAsset(asset)), the render and the effect it causes
setSelectedAsset(assetId) ==
  /\ mounted
  /\ assetId # selectedAsset
  /\ selectedAsset' = assetId
  /\ StartFetch(assetId, timeInterval)
  /\ UNCHANGED <<timeInterval, mounted, chartData, data, call, out>>

\* dispatch(setTimeInterval(interval)), the render and the effect it causes
setTimeInterval(interval) ==
  /\ mounted
  /\ interval # timeInterval
  /\ timeInterval' = interval
  /\ StartFetch(selectedAsset, interval)
  /\ UNCHANGED <<selectedAsset, mounted, chartData, data, call, out>>

\* setIndicatorSettings(prev => ...): a new settings object, so the effect
\* runs again for the same selection
setIndicatorSettings ==
  /\ mounted
  /\ selectedAsset # NoId
  /\ StartFetch(selectedAsset, timeInterval)
  /\ UNCHANGED <<selectedAsset, timeInterval, mounted, chartData, data, call,
                 out>>

\* the response of request k arrives: the rest of the try block, then finally
FetchResolves(k) ==
  /\ k \in Pending
  /\ \E result \in {calculateAllIndicators(
                       getHistoricalData(requests[k].id,
                                         requests[k].interval))} :
       IF result.status = "returned"
       THEN /\ chartData' = result.data
            /\ requests' = [requests EXCEPT ![k].status = "done"]
       ELSE /\ chartData' = chartData
            /\ requests' = [requests EXCEPT ![k].status = "failed"]
  /\ isLoading' = FALSE
  /\ UNCHANGED <<selectedAsset, timeInterval, mounted, data, call, out>>

\* the request k fails: getHistoricalData rethrows, catch logs, then finally
FetchFails(k) ==
  /\ k \in Pending
  /\ requests' = [requests EXCEPT ![k].status = "failed"]
  /\ isLoading' = FALSE
  /\ UNCHANGED <<selectedAsset, timeInterval, mounted, chartData, data, call,
                 out>>

InitChart ==
  /\ data = << >>
  /\ call = NoCall
  /\ out = [status |-> "none"]
  /\ ChartConstructed

NextChart ==
  \/ Mount
  \/ \E assetId \in AssetIds \cup {NoId} : setSelectedAsset(assetId)
  \/ \E interval \in Intervals : setTimeInterval(interval)
  \/ setIndicatorSettings
  \/ \E k \in 1..MaxRequests : FetchResolves(k)
  \/ \E k \in 1..MaxRequests : FetchFails(k)

SpecChart == InitChart /\ [][NextChart]_vars

\* ================================================================ claims

IsAll == call.fn = "calculateAllIndicators"

IsRSI == call.fn = "calculateRSI"

IsMACD == call.fn = "calculateMACD"

IsBollinger == call.fn = "calculateBollingerBands"

N == Len(data)

Absent(x) == IsUndef(x)

StrictlyIncreasing(d) ==
  \A n \in 1..(Len(d) - 1) : d[n].price.v < d[n + 1].price.v

\* every close of d equals c
FlatAt(d, c) == \A n \in 1..Len(d) : d[n].price = c

\* C1: for every input length N >= 0, calculateAllIndicators returns
\* normally and the enriched sequence has exactly N elements.
C1_EnrichedLength ==
  IsAll => out.status = "returned" /\ Len(out.data) = N

\* the facade has returned for an empty input and for one shorter than every
\* lookback
C1_Witness ==
  IsAll /\ out.status = "returned" /\ N = 0

\* C2: every signal sequence of the signals map returned by
\* calculateAllIndicators has length N.
C2_SignalLengths ==
  (IsAll /\ out.status = "returned") =>
    \A name \in DOMAIN out.signals : Len(out.signals[name]) = N

\* C3: every RSI value calculateRSI produces is a number in [0, 100], for
\* every price sequence and every period >= 1, flat windows included.
C3_RsiRange ==
  IsRSI =>
    \A n \in 1..Len(out.value.values) :
      LET v == out.value.values[n]
      IN IsNum(v) /\ v.v >= 0 /\ v.v <= 100 * Scale

\* C4: whenever the average loss over the RSI window is 0, calculateRSI
\* yields exactly 100 for that window, never NaN.
C4_ZeroLossSaturates ==
  IsRSI =>
    \A n \in 1..Len(out.value.values) :
      RsiAvgLoss(Prices(data), call.args[1], call.args[1] + n - 1) = Num(0)
        => out.value.values[n] = Int2Num(100)

\* C5: for a strictly increasing series of length N > 14 the enriched rsi is
\* absent at indices 0..13 and equals 100 at every index 14..N-1.
C5_IncreasingRsi ==
  (IsAll /\ out.status = "returned" /\ StrictlyIncreasing(data) /\ N > 14) =>
    \A n \in 1..N :
      IF n - 1 < 14 THEN Absent(out.data[n].rsi)
      ELSE out.data[n].rsi = Int2Num(100)

C5_Witness ==
  IsAll /\ out.status = "returned" /\ StrictlyIncreasing(data) /\ N = 30

Ordered(upper, middle, lower) == JsGe(upper, middle) /\ JsGe(middle, lower)

\* C6: wherever calculateBollingerBands produces bands, upperBand >=
\* middleBand >= lowerBand, for every period >= 1 and multiplier >= 0; so
\* also at every non-absent index of the enriched output.
C6_BandsOrdered ==
  /\ IsBollinger =>
       \A n \in 1..Len(out.value.middleBand) :
         Ordered(out.value.upperBand[n], out.value.middleBand[n],
                 out.value.lowerBand[n])
  /\ (IsAll /\ out.status = "returned") =>
       \A n \in 1..N :
         ~Absent(out.data[n].middleBand) =>
           Ordered(out.data[n].upperBand, out.data[n].middleBand,
                   out.data[n].lowerBand)

\* bands that are strictly apart have been produced
C6_Witness ==
  /\ IsBollinger
  /\ call.args[2] > 0
  /\ \E n \in 1..Len(out.value.middleBand) :
       /\ JsGt(out.value.upperBand[n], out.value.middleBand[n])
       /\ JsGt(out.value.middleBand[n], out.value.lowerBand[n])

\* the closes of the window of the bands at index i are all c
WindowFlat(d, period, i, c) ==
  \A j \in (i - period)..(i - 1) : d[j + 1].price = c

C8_BuyAtSecondBar ==
  IsMACD =>
    LET histogram == out.value.histogram
        signals == out.value.signals
        crossesUp(k) == /\ JsLt(At(histogram, k - 1), Num(0))
                        /\ JsGt(At(histogram, k), Num(0))
        crossesDown(k) == /\ JsGt(At(histogram, k - 1), Num(0))
                          /\ JsLt(At(histogram, k), Num(0))
    IN /\ \A k \in 1..(Len(histogram) - 1) :
            crossesUp(k) => k < Len(signals) /\ signals[k + 1] = "buy"
       /\ \A k \in 0..(Len(signals) - 1) :
            ~(k >= 1 /\ (crossesUp(k) \/ crossesDown(k)))
              => signals[k + 1] = "neutral"

\* field is absent in every enriched bar
AllAbsent(field) == \A n \in 1..N : Absent(out.data[n][field])

\* field is present in the enriched bar of index i and in no other
PresentExactlyAt(field, i) ==
  \A n \in 1..N : Absent(out.data[n][field]) <=> n - 1 # i

\* C9: for an input of length N < period, calculateRSI and
\* calculateBollingerBands return no values and no signals, and in the
\* enriched output rsi (N < 14), the bands and volumeMA (N < 20), macd
\* (N < 26), shortMA (N < 50) and longMA (N < 200) are absent at every index.
C9_ShortInputAbsent ==
  /\ (IsRSI /\ N < call.args[1]) =>
       out.value.values = << >> /\ out.value.signals = << >>
  /\ (IsBollinger /\ N < call.args[1]) =>
       /\ out.value.upperBand = << >>
       /\ out.value.middleBand = << >>
       /\ out.value.lowerBand = << >>
       /\ out.value.signals = << >>
  /\ (IsAll /\ out.status = "returned") =>
       /\ N < 14 => AllAbsent("rsi")
       /\ N < 20 => /\ AllAbsent("upperBand")
                    /\ AllAbsent("middleBand")
                    /\ AllAbsent("lowerBand")
                    /\ AllAbsent("volumeMA")
       /\ N < 26 => AllAbsent("macd")
       /\ N < 50 => AllAbsent("shortMA")
       /\ N < 200 => AllAbsent("longMA")

\* the facade has returned for 19 bars: rsi is there, the bands are not
C9_Witness ==
  /\ IsAll /\ out.status = "returned"
  /\ N = 19
  /\ ~Absent(out.data[N].rsi)
  /\ Absent(out.data[N].middleBand)

\* C10 as stated: for an input of length N equal to the period (RSI on 14
\* bars, Bollinger Bands or volume MA on 20 bars) the indicator's output has
\* exactly one non-absent value, at the last index N - 1.
C10_OneValueAtPeriod ==
  (IsAll /\ out.status = "returned") =>
    /\ N = 14 => PresentExactlyAt("rsi", N - 1)
    /\ N = 20 => /\ PresentExactlyAt("upperBand", N - 1)
                 /\ PresentExactlyAt("middleBand", N - 1)
                 /\ PresentExactlyAt("lowerBand", N - 1)
                 /\ PresentExactlyAt("volumeMA", N - 1)

\* C10 amended: for N equal to the period the indicator's output is absent
\* at every index; the first value appears for N = period + 1, and is then
\* the only one, at the last index N - 1.
C10_FirstValueAfterPeriod ==
  (IsAll /\ out.status = "returned") =>
    /\ N = 14 => AllAbsent("rsi")
    /\ N = 15 => PresentExactlyAt("rsi", N - 1)
    /\ N = 20 => /\ AllAbsent("upperBand")
                 /\ AllAbsent("middleBand")
                 /\ AllAbsent("lowerBand")
                 /\ AllAbsent("volumeMA")
    /\ N = 21 => /\ PresentExactlyAt("upperBand", N - 1)
                 /\ PresentExactlyAt("middleBand", N - 1)
                 /\ PresentExactlyAt("lowerBand", N - 1)
                 /\ PresentExactlyAt("volumeMA", N - 1)

\* the facade has returned for 21 bars, with bands at the last bar
C10_Witness ==
  /\ IsAll /\ out.status = "returned"
  /\ N = 21
  /\ ~Absent(out.data[N].upperBand)
  /\ ~Absent(out.data[N].volumeMA)

C13_AbsentVolumeStaysAbsent ==
  (IsAll /\ out.status = "returned") =>
    \A n \in 1..N : Absent(data[n].volume) => Absent(out.data[n].volume)

\* a finite number or an infinity: neither NaN nor undefined
Defined(x) == ~NotANumber(x)

\* C14: no signal is derived from a NaN or undefined operand: wherever
\* calculateRSI, calculateMACD or calculateVolume emits a signal, each value
\* compared to produce it (the RSI value, histogram[i] and histogram[i + 1],
\* volumeMA[i]) is a defined number.
C14_SignalOperandsDefined ==
  /\ IsRSI =>
       \A n \in 1..Len(out.value.signals) :
         Defined(At(out.value.values, n - 1))
  /\ IsMACD =>
       \A n \in 1..Len(out.value.signals) :
         /\ Defined(At(out.value.histogram, n - 1))
         /\ Defined(At(out.value.histogram, n))
  /\ (IsAll /\ out.status = "returned") =>
       \A n \in 1..Len(out.signals.volume) :
         Defined(At(calculateVolume(data, VolumePeriod).volumeMA, n - 1))

\* C15: calculateRSI called with period <= 0 reports a configuration error
\* synchronously (the call does not return a result) and so produces no
\* values and no signals.
C15_BadPeriodRejected ==
  (IsRSI /\ call.args[1] <= 0) => out.status = "threw"

\* the indicator fields of an enriched bar
IndicatorFields ==
  {"rsi", "macd", "macdSignal", "macdHistogram", "upperBand", "middleBand",
   "lowerBand", "shortMA", "longMA", "volumeMA", "adx", "obv", "vwap", "atr",
   "cci", "stoch", "roc", "mfi"}

\* C17 as stated: when the input has fewer bars than the largest lookback
\* (N < 200), no call fails and every indicator field of every enriched bar
\* is absent.
C17_AllAbsentBelowLongest ==
  IsAll =>
    /\ out.status = "returned"
    /\ N < LongPeriod => \A field \in IndicatorFields : AllAbsent(field)

\* C17 amended: no call fails, and an indicator field is absent in every
\* enriched bar when the input has no more bars than that indicator's own
\* lookback; with N < 200 the indicators whose lookback is below N carry
\* values (rsi from index 14, the bands from index 20).
C17_AbsentUpToOwnLookback ==
  IsAll =>
    /\ out.status = "returned"
    /\ N <= 14 => AllAbsent("rsi") /\ AllAbsent("atr")
    /\ N <= 20 => /\ AllAbsent("upperBand")
                  /\ AllAbsent("middleBand")
                  /\ AllAbsent("lowerBand")
                  /\ AllAbsent("volumeMA")
    /\ N <= 26 => AllAbsent("macd")
    /\ N <= 35 => AllAbsent("macdSignal") /\ AllAbsent("macdHistogram")
    /\ N <= 50 => AllAbsent("shortMA")
    /\ N <= 200 => AllAbsent("longMA")
    /\ (N > 14 /\ N < LongPeriod) =>
         \A n \in 15..N : ~Absent(out.data[n].rsi)
    /\ (N > 20 /\ N < LongPeriod) =>
         \A n \in 21..N : ~Absent(out.data[n].middleBand)

\* the facade has returned for 35 bars: macd is there, its signal line is not
C17_Witness ==
  /\ IsAll /\ out.status = "returned"
  /\ N = 35
  /\ ~Absent(out.data[N].macd)
  /\ ~Absent(out.data[N].rsi)
  /\ AllAbsent("macdSignal")

NonDecreasingTimestamps(bars) ==
  \A n \in 1..(Len(bars) - 1) : bars[n].timestamp <= bars[n + 1].timestamp

\* C18: for every index i, enriched[i] carries the same timestamp, price,
\* high and low as input[i]; so the enriched bars are in the input's order
\* and their timestamps are non-decreasing whenever the input's are.
C18_BarFieldsKept ==
  (IsAll /\ out.status = "returned") =>
    /\ \A n \in 1..N :
         /\ out.data[n].timestamp = data[n].timestamp
         /\ out.data[n].price = data[n].price
         /\ out.data[n].high = data[n].high
         /\ out.data[n].low = data[n].low
    /\ NonDecreasingTimestamps(data) => NonDecreasingTimestamps(out.data)

\* the facade has returned for 30 bars that carry a high and a low
C18_Witness ==
  /\ IsAll /\ out.status = "returned"
  /\ N = 30
  /\ \A n \in 1..N : IsNum(data[n].high) /\ IsNum(data[n].low)
  /\ \E n \in 1..(N - 1) : data[n].price # data[n + 1].price

\* the rounding of the fixed-point divisions can move a computed value by a
\* few units of the last place; values closer than a tenth count as equal
Tolerance == Scale \div 10

Near(a, b) ==
  IF IsNum(a) /\ IsNum(b) THEN Abs(a.v - b.v) <= Tolerance ELSE a = b

\* the EMA of the given period at bar i: the library returns N - period + 1
\* values, the first of which belongs to bar period - 1
EmaAtBar(prices, period, i) == At(EMA(prices, period), i - (period - 1))

\* C19: each MACD-line value is the fast EMA minus the slow EMA of the same
\* bar: every element of the macd array calculateMACD returns is a defined
\* number, and the enriched macd at index i is EMA(12) at bar i minus
\* EMA(26) at bar i.
C19_MacdSameBar ==
  /\ IsMACD =>
       \A n \in 1..Len(out.value.macd) : Defined(out.value.macd[n])
  /\ (IsAll /\ out.status = "returned") =>
       \A n \in 1..N :
         ~Absent(out.data[n].macd) =>
           Near(out.data[n].macd,
                JsSub(EmaAtBar(Prices(data), MacdFastPeriod, n - 1),
                      EmaAtBar(Prices(data), MacdSlowPeriod, n - 1)))

\* C20: at every index of the enriched output where macd, macdSignal and
\* macdHistogram are all present, macdHistogram = macd - macdSignal.
C20_HistogramSameBar ==
  (IsAll /\ out.status = "returned") =>
    \A n \in 1..N :
      (/\ ~Absent(out.data[n].macd)
       /\ ~Absent(out.data[n].macdSignal)
       /\ ~Absent(out.data[n].macdHistogram)) =>
        Near(out.data[n].macdHistogram,
             JsSub(out.data[n].macd, out.data[n].macdSignal))

\* the index below which a fixed-offset field of the enriched output has no
\* value
WarmUp(field) ==
  CASE field \in {"rsi", "atr"} -> 14
    [] field \in {"upperBand", "middleBand", "lowerBand", "volumeMA"} -> 20
    [] field = "macd" -> 26
    [] field \in {"macdSignal", "macdHistogram"} -> 26 + 9
    [] field = "shortMA" -> 50
    [] field = "longMA" -> 200

FixedOffsetFields ==
  {"rsi", "atr", "upperBand", "middleBand", "lowerBand", "volumeMA", "macd",
   "macdSignal", "macdHistogram", "shortMA", "longMA"}

\* C21: in the enriched output each fixed-offset field is absent at exactly
\* the indices below its warm-up and non-absent at every index at or above
\* it (rsi and atr 14, the bands and volumeMA 20, macd 26, macdSignal and
\* macdHistogram 35, shortMA 50, longMA 200), for every N greater than the
\* warm-up.
C21_AbsentExactlyBelowWarmUp ==
  (IsAll /\ out.status = "returned") =>
    \A field \in FixedOffsetFields :
      N > WarmUp(field) =>
        \A n \in 1..N : Absent(out.data[n][field]) <=> n - 1 < WarmUp(field)

\* the facade has returned for more than 200 bars: the long average is
\* absent at index 199 and present at index 200
C21_Witness ==
  /\ IsAll /\ out.status = "returned"
  /\ N > 200
  /\ Absent(out.data[200].longMA)
  /\ ~Absent(out.data[201].longMA)
  /\ ~Absent(out.data[51].shortMA)

\* the arithmetic mean of the `period` values of the bars i - period + 1 .. i
TrailingMean(values, period, i) ==
  JsDiv(Sum(Slice(values, i - period + 1, i + 1)), Int2Num(period))

\* C22: each moving-average value in the enriched output at index i is the
\* arithmetic mean of the trailing `period` values ending at and including
\* bar i: shortMA[i] = mean(price[i-49..i]), longMA[i] =
\* mean(price[i-199..i]), volumeMA[i] = mean(volume[i-19..i]).
C22_TrailingWindowEndsAtBar ==
  (IsAll /\ out.status = "returned") =>
    \A n \in 1..N :
      /\ ~Absent(out.data[n].shortMA) =>
           Near(out.data[n].shortMA,
                TrailingMean(Prices(data), ShortPeriod, n - 1))
      /\ ~Absent(out.data[n].longMA) =>
           Near(out.data[n].longMA,
                TrailingMean(Prices(data), LongPeriod, n - 1))
      /\ ~Absent(out.data[n].volumeMA) =>
           Near(out.data[n].volumeMA,
                TrailingMean(Volumes(data), VolumePeriod, n - 1))

\* the short average is below the long one at bar b and above it at bar
\* b + 1, both averages taken over the windows that end at the bar compared
CrossesAboveAt(prices, b) ==
  /\ JsLt(TrailingMean(prices, ShortPeriod, b),
          TrailingMean(prices, LongPeriod, b))
  /\ JsGt(TrailingMean(prices, ShortPeriod, b + 1),
          TrailingMean(prices, LongPeriod, b + 1))

CrossesBelowAt(prices, b) ==
  /\ JsGt(TrailingMean(prices, ShortPeriod, b),
          TrailingMean(prices, LongPeriod, b))
  /\ JsLt(TrailingMean(prices, ShortPeriod, b + 1),
          TrailingMean(prices, LongPeriod, b + 1))

\* the bars b for which both averages exist at b and at b + 1
BothAverages == (LongPeriod - 1)..(N - 2)

\* C23: calculateMovingAverages emits 'buy' exactly when the short MA is
\* below the long MA at one bar and above it at the next bar, and 'sell'
\* exactly in the opposite case, the two averages of each comparison
\* belonging to the same bar; it emits one signal per bar for which both
\* averages exist.
C23_CrossingsOfSameBar ==
  (IsAll /\ out.status = "returned") =>
    LET prices == Prices(data)
        signals == out.signals.ma
    IN /\ Len(signals) = Max0(N - (LongPeriod - 1))
       /\ (\E k \in 1..Len(signals) : signals[k] = "buy")
            <=> (\E b \in BothAverages : CrossesAboveAt(prices, b))
       /\ (\E k \in 1..Len(signals) : signals[k] = "sell")
            <=> (\E b \in BothAverages : CrossesBelowAt(prices, b))

\* volume[i] is above 1.5 times the mean of the `period` volumes that end at
\* bar i; no spike while that window is not full
SpikeAt(volume, period, i) ==
  /\ i >= period - 1
  /\ JsGt(At(volume, i), JsMul(TrailingMean(volume, period, i), SpikeFactor))

\* C24: calculateVolume classifies bar i as a spike exactly when volume[i] >
\* 1.5 x the simple moving average of the trailing `period` volumes ending
\* at bar i, and emits 'buy' for a spike followed by a higher next-bar
\* price, 'sell' for a spike followed by a lower next-bar price, and
\* 'neutral' otherwise, so also at every bar inside the warm-up.
C24_SpikeOverTrailingAverage ==
  (IsAll /\ out.status = "returned") =>
    \A k \in 1..Len(out.signals.volume) :
      LET i == k - 1
          spike == SpikeAt(Volumes(data), VolumePeriod, i)
      IN out.signals.volume[k] =
           (IF spike /\ JsGt(data[i + 2].price, data[i + 1].price) THEN "buy"
            ELSE IF spike /\ JsLt(data[i + 2].price, data[i + 1].price)
              THEN "sell"
            ELSE "neutral")

\* C25: calculateOBV emits 'buy' exactly when the OBV value is greater than
\* the previous one and 'sell' exactly when it is smaller than the previous
\* one; when OBV is unchanged from the previous value the signal is neither
\* 'buy' nor 'sell'.
C25_ObvSignalFollowsChange ==
  (IsAll /\ out.status = "returned") =>
    LET obvValues == calculateOBV(data).values
    IN \A k \in 2..Len(out.signals.obv) :
         /\ out.signals.obv[k] = "buy" <=> JsGt(obvValues[k], obvValues[k - 1])
         /\ out.signals.obv[k] = "sell" <=> JsLt(obvValues[k], obvValues[k - 1])

\* one signal per value: `above` for a value greater than high, `below` for
\* one smaller than low, `between` for every other value, high and low
\* themselves included
Classified(values, signals, high, low, above, below, between) ==
  /\ Len(signals) = Len(values)
  /\ \A k \in 1..Len(values) :
       signals[k] = (IF JsGt(values[k], Int2Num(high)) THEN above
                     ELSE IF JsLt(values[k], Int2Num(low)) THEN below
                     ELSE between)

\* one 'neutral' per value
AllNeutral(values, signals) ==
  /\ Len(signals) = Len(values)
  /\ \A k \in 1..Len(values) : signals[k] = "neutral"

\* C26: every threshold signal is the stated total function of its value,
\* the boundary values mapping to the default class: RSI > 70 overbought,
\* < 30 oversold, else neutral; CCI > 100 / < -100; Stochastic %K and MFI
\* > 80 / < 20; ROC > 0 buy, < 0 sell, 0 neutral; ADX > 25 strong, else
\* weak; VWAP and ATR always neutral.  Each signal sequence has one signal
\* per computed value, a member of its indicator's enumeration.
C26_ThresholdSignals ==
  /\ call.fn = "signal" =>
       LET rule == call.args[1]
           value == call.args[2]
           Is(high, low, above, below, between) ==
             Classified(<<value>>, <<out.value>>, high, low,
                        above, below, between)
       IN CASE rule = "rsi" ->
                 Is(70, 30, "overbought", "oversold", "neutral")
            [] rule = "cci" ->
                 Is(100, -100, "overbought", "oversold", "neutral")
            [] rule \in {"stoch", "mfi"} ->
                 Is(80, 20, "overbought", "oversold", "neutral")
            [] rule = "roc" -> Is(0, 0, "buy", "sell", "neutral")
            [] rule = "adx" -> Is(25, 25, "strong", "weak", "weak")
            [] rule \in {"vwap", "atr"} -> out.value = "neutral"
  /\ IsRSI =>
       Classified(out.value.values, out.value.signals, 70, 30,
                  "overbought", "oversold", "neutral")
  /\ (IsAll /\ out.status = "returned") =>
       /\ Classified(calculateRSI(data, RsiPeriod).values, out.signals.rsi,
                     70, 30, "overbought", "oversold", "neutral")
       /\ Classified(calculateCCI(data, CciPeriod).values, out.signals.cci,
                     100, -100, "overbought", "oversold", "neutral")
       /\ Classified(calculateStoch(data, StochPeriod,
                                    StochSignalPeriod).values,
                     out.signals.stoch, 80, 20,
                     "overbought", "oversold", "neutral")
       /\ Classified(calculateMFI(data, MfiPeriod).values, out.signals.mfi,
                     80, 20, "overbought", "oversold", "neutral")
       /\ Classified(calculateROC(data, RocPeriod).values, out.signals.roc,
                     0, 0, "buy", "sell", "neutral")
       /\ Classified(calculateADX(data, AdxPeriod).values, out.signals.adx,
                     25, 25, "strong", "weak", "weak")
       /\ AllNeutral(calculateVWAP(data).values, out.signals.vwap)
       /\ AllNeutral(calculateATR(data, AtrPeriod).values, out.signals.atr)

\* the RSI rule has been applied to the boundary value 70
C26_Witness ==
  /\ call.fn = "signal"
  /\ call.args = <<"rsi", Int2Num(70)>>
  /\ out.value = "neutral"

\* the closes of the bars i - period .. i - 1
WindowBefore(prices, period, i) == Slice(prices, i - period, i)

\* the mean of a window
MeanOf(window) == JsDiv(Sum(window), Int2Num(Len(window)))

\* the standard deviation of a window around its mean
DeviationOf(window, mean) ==
  JsSqrt(MeanOf([j \in 1..Len(window) |->
                   JsMul(JsSub(window[j], mean), JsSub(window[j], mean))]))

\* the three bands are those of the window: its mean, and the mean plus and
\* minus `multiplier` standard deviations
BandsOfWindow(window, multiplier, upper, middle, lower) ==
  \E mean \in {MeanOf(window)} :
    \E width \in {JsMul(DeviationOf(window, mean), Int2Num(multiplier))} :
      /\ Near(middle, mean)
      /\ Near(upper, JsAdd(mean, width))
      /\ Near(lower, JsSub(mean, width))

\* the signal is that of the close against the upper and the lower band

SignalOfClose(close, upper, lower, signal) ==
  signal = (IF JsGt(close, upper) THEN "sell"
            ELSE IF JsLt(close, lower) THEN "buy"
            ELSE "neutral")

\* C27: the Bollinger bands reported for bar i (i >= period) are computed
\* from the `period` closes of bars i - period .. i - 1 (bar i itself is not
\* in the window), and the signal for bar i compares bar i's close with
\* those bands: 'sell' above the upper band, 'buy' below the lower band,
\* otherwise 'neutral'; values and signals have the length
\* max(0, N - period).
C27_BandsOfPrecedingWindow ==
  /\ IsBollinger =>
       LET period == call.args[1]
           multiplier == call.args[2]
           prices == Prices(data)
       IN /\ Len(out.value.upperBand) = Max0(N - period)
          /\ Len(out.value.middleBand) = Max0(N - period)
          /\ Len(out.value.lowerBand) = Max0(N - period)
          /\ Len(out.value.signals) = Max0(N - period)
          /\ \A n \in 1..Max0(N - period) :
               LET i == period + n - 1
               IN /\ BandsOfWindow(WindowBefore(prices, period, i),
                                   multiplier, out.value.upperBand[n],
                                   out.value.middleBand[n],
                                   out.value.lowerBand[n])
                  /\ SignalOfClose(At(prices, i), out.value.upperBand[n],
                                   out.value.lowerBand[n],
                                   out.value.signals[n])
  /\ (IsAll /\ out.status = "returned") =>
       /\ Len(out.signals.bollinger) = Max0(N - BollingerPeriod)
       /\ \A n \in (BollingerPeriod + 1)..N :
            /\ BandsOfWindow(WindowBefore(Prices(data), BollingerPeriod,
                                          n - 1),
                             BollingerMultiplier, out.data[n].upperBand,
                             out.data[n].middleBand, out.data[n].lowerBand)
            /\ SignalOfClose(data[n].price, out.data[n].upperBand,
                             out.data[n].lowerBand,
                             out.signals.bollinger[n - BollingerPeriod])

\* bands have been returned for a bar whose close lies outside them, so a
\* window that held the bar itself would give other bands
C27_Witness ==
  /\ IsBollinger
  /\ call.args[1] = 2
  /\ N > 2
  /\ \E n \in 1..Len(out.value.signals) : out.value.signals[n] = "sell"
  /\ \E n \in 1..Len(out.value.signals) : out.value.signals[n] = "buy"

\* the field of the enriched bars is the raw series moved to the end: the
\* first N - m bars have no value, the last m carry the m raw values in
\* their order
PaddedToEnd(raw, field) ==
  /\ Len(raw) <= N
  /\ \A n \in 1..N :
       out.data[n][field] =
         (IF n <= N - Len(raw) THEN Undef ELSE raw[n - (N - Len(raw))])

\* C28: for every raw series of length m <= L, padValues(values, L) returns
\* a sequence of length L whose first L - m entries are absent and whose
\* last m entries are the raw values in their order, so the last raw value
\* lands on the last bar; the facade calls it with m <= L only, so it never
\* throws, for adx, obv, vwap, cci, stoch, roc and mfi.
C28_PaddedAtFront ==
  IsAll =>
    /\ out.status = "returned"
    /\ PaddedToEnd(calculateADX(data, AdxPeriod).values, "adx")
    /\ PaddedToEnd(calculateOBV(data).values, "obv")
    /\ PaddedToEnd(calculateVWAP(data).values, "vwap")
    /\ PaddedToEnd(calculateCCI(data, CciPeriod).values, "cci")
    /\ PaddedToEnd(calculateStoch(data, StochPeriod,
                                  StochSignalPeriod).values, "stoch")
    /\ PaddedToEnd(calculateROC(data, RocPeriod).values, "roc")
    /\ PaddedToEnd(calculateMFI(data, MfiPeriod).values, "mfi")

\* the facade has returned for 30 bars: adx has a padded front and a value
\* at the last bar, vwap needs no padding
C28_Witness ==
  /\ IsAll /\ out.status = "returned"
  /\ N = 30
  /\ Absent(out.data[1].adx)
  /\ ~Absent(out.data[N].adx)
  /\ out.data[N].roc = calculateROC(data, RocPeriod).values[N - RocPeriod]
  /\ ~Absent(out.data[1].vwap)

\* every fetch that was started has ended and none of them failed
AllFetchesCompleted ==
  /\ requests # << >>
  /\ \A k \in 1..Len(requests) : requests[k].status = "done"

\* what the chart shows when it shows the bars fetched for a selection
DataFetchedFor(assetId, interval) ==
  calculateAllIndicators(getHistoricalData(assetId, interval)).data

\* C29: when the asset or the interval changed while an earlier fetch was
\* in flight, then once every fetch has completed chartData is the data
\* fetched for the latest selection; a response for an earlier selection
\* that arrives later never overwrites it.
C29_LatestSelectionShown ==
  (mounted /\ selectedAsset # NoId /\ AllFetchesCompleted) =>
    chartData = DataFetchedFor(selectedAsset, timeInterval)

\* request k ends in this step by failure
FailsInStep(k) ==
  /\ k \in Pending
  /\ requests'[k].status = "failed"

\* C30: isLoading is true whenever at least one fetch is in flight and
\* false once every fetch has ended, by success or by failure; a fetch
\* that fails leaves chartData as it was.
C30_LoadingWhileInFlight ==
  /\ [](isLoading <=> Pending # {})
  /\ [][(\E k \in 1..Len(requests) : FailsInStep(k)) =>
          chartData' = chartData]_vars

====
